---- MODULE Spec2Model ----
(***************************************************************************)
(* Model of crates/ollama/src/ollama_completion_provider.rs: the Ollama    *)
(* inline completion provider (refresh / cycle / accept / discard /        *)
(* active_completion_text), its spawned refresh task, the FIM prompt       *)
(* builder and the response sanitizer.                                     *)
(*                                                                         *)
(* Strings are sequences of one-character strings.  Option<T> is a         *)
(* sequence of length at most one: <<>> is None, <<x>> is Some(x).         *)
(***************************************************************************)
EXTENDS Integers, Sequences, FiniteSets, TLC

VARIABLES
    buffer_id,           \* Option<EntityId>
    current_completion,  \* Option<String>
    file_extension,      \* Option<String>
    pending_refresh,     \* handle held by the provider: index into tasks, 0 = Task::ready(Ok(()))
    telemetry,           \* TRUE iff a telemetry sink is attached (Option<Arc<Telemetry>>)
    model,               \* OllamaModel, cloned into every request
    tasks,               \* the futures spawned by refresh, in call order
    buffer_text,         \* text of each buffer (editor state read by refresh)
    telemetry_events,    \* calls received by the telemetry sink
    notified,            \* number of cx.notify() calls
    op,                  \* name of the operation performed by the last step
    fn_in,               \* input of the pure function under check
    fn_out               \* its output, <<>> until applied

vars == <<buffer_id, current_completion, file_extension, pending_refresh, telemetry, model,
          tasks, buffer_text, telemetry_events, notified, op, fn_in, fn_out>>

provider == <<buffer_id, current_completion, file_extension, pending_refresh, telemetry, model>>

----------------------------------------------------------------------------
(* Bounds *)

MaxRefresh == 2      \* refresh calls in one behaviour
MaxTextLen == 4      \* length of the buffer texts given to the prompt builder
MaxItems == 5        \* pieces a raw response is assembled from

----------------------------------------------------------------------------
(* Option and string helpers *)

None == <<>>
Some(x) == <<x>>
IsSome(o) == o # <<>>

RECURSIVE Concat(_)
Concat(ss) == IF ss = <<>> THEN <<>> ELSE Head(ss) \o Concat(Tail(ss))

IsWhitespace(c) == c \in {" ", "\n", "\t"}

RECURSIVE trim_start(_)
trim_start(s) ==
    IF s # <<>> /\ IsWhitespace(Head(s)) THEN trim_start(Tail(s)) ELSE s

RECURSIVE trim_end(_)
trim_end(s) ==
    IF s # <<>> /\ IsWhitespace(s[Len(s)]) THEN trim_end(SubSeq(s, 1, Len(s) - 1)) ELSE s

trim(s) == trim_end(trim_start(s))

\* str::replace(pat, ""): leftmost non-overlapping matches, one pass
RECURSIVE replace(_, _)
replace(s, pat) ==
    IF Len(s) < Len(pat) THEN s
    ELSE IF SubSeq(s, 1, Len(pat)) = pat
         THEN replace(SubSeq(s, Len(pat) + 1, Len(s)), pat)
         ELSE <<Head(s)>> \o replace(Tail(s), pat)

split_at(s, mid) == <<SubSeq(s, 1, mid), SubSeq(s, mid + 1, Len(s))>>

FIM_PREFIX == <<"<", "f", "i", "m", "_", "p", "r", "e", "f", "i", "x", ">">>
FIM_SUFFIX == <<"<", "f", "i", "m", "_", "s", "u", "f", "f", "i", "x", ">">>
FIM_MIDDLE == <<"<", "f", "i", "m", "_", "m", "i", "d", "d", "l", "e", ">">>

name == "ollama"

\* the segments are not trimmed
BuildPromptUntrimmed(buffer_text_, cursor_offset) ==
    LET parts == split_at(buffer_text_, cursor_offset)
        prefix == parts[1]
        suffix == parts[2]
    IN  prefix \o FIM_PREFIX \o <<"\n">> \o
        suffix \o FIM_SUFFIX \o <<"\n">> \o
        <<>> \o FIM_MIDDLE

\* format!("{}<fim_prefix>\n{}<fim_suffix>\n{}<fim_middle>", prefix.trim_end(), suffix.trim_start(), "")
BuildPrompt(buffer_text_, cursor_offset) ==
    LET parts == split_at(buffer_text_, cursor_offset)
        prefix == parts[1]
        suffix == parts[2]
    IN  trim_end(prefix) \o FIM_PREFIX \o <<"\n">> \o
        trim_start(suffix) \o FIM_SUFFIX \o <<"\n">> \o
        <<>> \o FIM_MIDDLE

\* trims before the tags are removed
SanitizeTrimFirst(content) ==
    replace(replace(replace(trim(content), FIM_MIDDLE), FIM_PREFIX), FIM_SUFFIX)

\* content.replace("<fim_middle>", "").replace("<fim_prefix>", "").replace("<fim_suffix>", "").trim()
Sanitize(content) ==
    trim(replace(replace(replace(content, FIM_MIDDLE), FIM_PREFIX), FIM_SUFFIX))

\* Path::new(file_name).extension(): the part after the last '.', None when
\* there is no '.' or the only '.' is the first character
\* Path::file_stem taken for Path::extension
ExtensionIsStem(file_name) ==
    IF file_name = <<".", ".">> \/ {i \in 1..Len(file_name) : file_name[i] = "."} = {} THEN None
    ELSE Some(SubSeq(file_name, 1, 1))

Dots(s) == {i \in 1..Len(s) : s[i] = "."}
LastDot(s) == CHOOSE i \in Dots(s) : \A j \in Dots(s) : j <= i
Extension(file_name) ==
    IF file_name = <<".", ".">> \/ Dots(file_name) = {} \/ LastDot(file_name) = 1 THEN None
    ELSE Some(SubSeq(file_name, LastDot(file_name) + 1, Len(file_name)))

----------------------------------------------------------------------------
(* The editor around the provider: buffers, their files and texts, and the *)
(* responses the chat client can deliver.                                  *)

Buffers == {1, 2}

\* buffer.file(): buffer 1 is main.rs, buffer 2 has no file
FileOf(b) ==
    CASE b = 1 -> Some(<<"m", "a", "i", "n", ".", "r", "s">>)
      [] b = 2 -> None

Texts == { <<"a">>, <<"b">> }

Contents ==
    { <<" ", "\n">>,
      FIM_MIDDLE \o <<" ">>,
      <<"x">>,
      <<" ", "x">> \o FIM_PREFIX \o <<"y", "\n">>,
      <<"<", "f", "i", "m", "_">> \o FIM_PREFIX \o <<"m", "i", "d", "d", "l", "e", ">">> }

\* Result<ChatResponse>: Err, or Ok with a message that is ChatMessage::Assistant or another variant
Responses ==
    { [kind |-> "err"], [kind |-> "other"] } \cup
    { [kind |-> "assistant", content |-> c] : c \in Contents }

NoCapture == [debounce |-> FALSE, buffer |-> 0, prompt |-> <<>>]

TaskIds == 1..Len(tasks)

Live(t) == tasks[t].state \in {"start", "timer", "chat"}

----------------------------------------------------------------------------
(* Initial state: OllamaCompletionProvider::new(model), optionally followed *)
(* by with_telemetry(...).                                                  *)

InitProvider ==
    /\ buffer_id = None
    /\ current_completion = None
    /\ file_extension = None
    /\ pending_refresh = 0
    /\ telemetry \in BOOLEAN
    /\ model = "model"
    /\ tasks = <<>>
    /\ buffer_text \in [Buffers -> {<<"a">>}]
    /\ telemetry_events = <<>>
    /\ notified = 0
    /\ op = "new"

Init ==
    /\ InitProvider
    /\ fn_in = <<>>
    /\ fn_out = <<>>

----------------------------------------------------------------------------
(* Dropping a gpui Task handle cancels its future if it has not finished:   *)
(* the future is never polled again.                                        *)

DropTask(ts, h) ==
    IF h \in 1..Len(ts) /\ ts[h].state \in {"start", "timer", "chat"}
    THEN [ts EXCEPT ![h] = [@ EXCEPT !.state = "cancelled",
                                     !.debounce = NoCapture.debounce,
                                     !.buffer = NoCapture.buffer,
                                     !.prompt = NoCapture.prompt]]
    ELSE ts

\* the future created by cx.spawn: not yet polled, holding its captures
NewTask(b, prompt, debounce) ==
    [state |-> "start", debounce |-> debounce, buffer |-> b, prompt |-> prompt,
     called |-> FALSE, outcome |-> "none", result |-> "none"]

\* the handle of the spawned task is not stored: the earlier task is not dropped
RefreshDetached(b, cursor_offset, debounce) ==
    /\ Len(tasks) < MaxRefresh
    /\ LET prompt == BuildPrompt(buffer_text[b], cursor_offset)
       IN  tasks' = Append(tasks, NewTask(b, prompt, debounce))
    /\ op' = "refresh"
    /\ UNCHANGED <<buffer_id, current_completion, file_extension, pending_refresh, telemetry, model,
                   buffer_text, telemetry_events, notified, fn_in, fn_out>>

(* refresh(buffer, cursor_position, debounce, cx) *)
Refresh(b, cursor_offset, debounce) ==
    /\ Len(tasks) < MaxRefresh
    /\ LET prompt == BuildPrompt(buffer_text[b], cursor_offset)
       IN  tasks' = Append(DropTask(tasks, pending_refresh), NewTask(b, prompt, debounce))
    /\ pending_refresh' = Len(tasks) + 1
    /\ op' = "refresh"
    /\ UNCHANGED <<buffer_id, current_completion, file_extension, telemetry, model,
                   buffer_text, telemetry_events, notified, fn_in, fn_out>>

\* the debounce flag is ignored: the request is sent on the first poll
TaskStartSkipsDebounce(t) ==
    /\ t \in TaskIds
    /\ tasks[t].state = "start"
    /\ tasks' = [tasks EXCEPT ![t] = [@ EXCEPT !.state = "chat", !.called = TRUE]]
    /\ op' = "start"
    /\ UNCHANGED <<provider, buffer_text, telemetry_events, notified, fn_in, fn_out>>

(* First poll of the spawned future: with debounce it suspends on the timer, *)
(* otherwise it builds the request and suspends on model.chat(request).     *)
TaskStart(t) ==
    /\ t \in TaskIds
    /\ tasks[t].state = "start"
    /\ tasks' = [tasks EXCEPT ![t] =
                    IF tasks[t].debounce
                    THEN [@ EXCEPT !.state = "timer"]
                    ELSE [@ EXCEPT !.state = "chat", !.called = TRUE]]
    /\ op' = "start"
    /\ UNCHANGED <<provider, buffer_text, telemetry_events, notified, fn_in, fn_out>>

\* the prompt is rebuilt from the buffer when the timer fires
TimerFiredRecaptures(t) ==
    /\ t \in TaskIds
    /\ tasks[t].state = "timer"
    /\ tasks' = [tasks EXCEPT ![t] =
                    [@ EXCEPT !.state = "chat", !.called = TRUE,
                              !.prompt = BuildPrompt(buffer_text[tasks[t].buffer], 0)]]
    /\ op' = "timer"
    /\ UNCHANGED <<provider, buffer_text, telemetry_events, notified, fn_in, fn_out>>

(* The debounce timer fires: the future builds the request and suspends on  *)
(* model.chat(request).                                                     *)
TimerFired(t) ==
    /\ t \in TaskIds
    /\ tasks[t].state = "timer"
    /\ tasks' = [tasks EXCEPT ![t] = [@ EXCEPT !.state = "chat", !.called = TRUE]]
    /\ op' = "timer"
    /\ UNCHANGED <<provider, buffer_text, telemetry_events, notified, fn_in, fn_out>>

Finished(task, outcome, result) ==
    [task EXCEPT !.state = "done", !.outcome = outcome, !.result = result,
                 !.debounce = NoCapture.debounce, !.buffer = NoCapture.buffer, !.prompt = NoCapture.prompt]

\* the check for an empty completion is missing
ChatReturnsPublishesEmpty(t, response) ==
    /\ t \in TaskIds
    /\ tasks[t].state = "chat"
    /\ op' = "chat"
    /\ IF response.kind = "err"
       THEN /\ tasks' = [tasks EXCEPT ![t] = Finished(@, "failed", "ok")]
            /\ UNCHANGED <<buffer_id, current_completion, file_extension, notified>>
       ELSE IF response.kind # "assistant"
       THEN /\ tasks' = [tasks EXCEPT ![t] = Finished(@, "unexpected", "ok")]
            /\ UNCHANGED <<buffer_id, current_completion, file_extension, notified>>
       ELSE LET completion == Sanitize(response.content)
            IN  IF TRUE
                THEN /\ current_completion' = Some(completion)
                     /\ buffer_id' = Some(tasks[t].buffer)
                     /\ file_extension' =
                            IF IsSome(FileOf(tasks[t].buffer))
                            THEN Extension(FileOf(tasks[t].buffer)[1])
                            ELSE None
                     /\ notified' = notified + 1
                     /\ tasks' = [tasks EXCEPT ![t] = Finished(@, "published", "ok")]
                ELSE /\ tasks' = [tasks EXCEPT ![t] = Finished(@, "empty", "ok")]
                     /\ UNCHANGED <<buffer_id, current_completion, file_extension, notified>>
    /\ UNCHANGED <<pending_refresh, telemetry, model, buffer_text, telemetry_events, fn_in, fn_out>>

\* a failed call clears the suggestion
ChatReturnsClearsOnFailure(t, response) ==
    /\ t \in TaskIds
    /\ tasks[t].state = "chat"
    /\ op' = "chat"
    /\ IF response.kind = "err"
       THEN /\ tasks' = [tasks EXCEPT ![t] = Finished(@, "failed", "ok")]
            /\ current_completion' = None
            /\ UNCHANGED <<buffer_id, file_extension, notified>>
       ELSE IF response.kind # "assistant"
       THEN /\ tasks' = [tasks EXCEPT ![t] = Finished(@, "unexpected", "ok")]
            /\ UNCHANGED <<buffer_id, current_completion, file_extension, notified>>
       ELSE LET completion == Sanitize(response.content)
            IN  IF completion # <<>>
                THEN /\ current_completion' = Some(completion)
                     /\ buffer_id' = Some(tasks[t].buffer)
                     /\ file_extension' =
                            IF IsSome(FileOf(tasks[t].buffer))
                            THEN Extension(FileOf(tasks[t].buffer)[1])
                            ELSE None
                     /\ notified' = notified + 1
                     /\ tasks' = [tasks EXCEPT ![t] = Finished(@, "published", "ok")]
                ELSE /\ tasks' = [tasks EXCEPT ![t] = Finished(@, "empty", "ok")]
                     /\ UNCHANGED <<buffer_id, current_completion, file_extension, notified>>
    /\ UNCHANGED <<pending_refresh, telemetry, model, buffer_text, telemetry_events, fn_in, fn_out>>

\* the publish writes text and buffer identity but leaves the file extension
ChatReturnsKeepsExtension(t, response) ==
    /\ t \in TaskIds
    /\ tasks[t].state = "chat"
    /\ op' = "chat"
    /\ IF response.kind = "err"
       THEN /\ tasks' = [tasks EXCEPT ![t] = Finished(@, "failed", "ok")]
            /\ UNCHANGED <<buffer_id, current_completion, file_extension, notified>>
       ELSE IF response.kind # "assistant"
       THEN /\ tasks' = [tasks EXCEPT ![t] = Finished(@, "unexpected", "ok")]
            /\ UNCHANGED <<buffer_id, current_completion, file_extension, notified>>
       ELSE LET completion == Sanitize(response.content)
            IN  IF completion # <<>>
                THEN /\ current_completion' = Some(completion)
                     /\ buffer_id' = Some(tasks[t].buffer)
                     /\ file_extension' = file_extension
                     /\ notified' = notified + 1
                     /\ tasks' = [tasks EXCEPT ![t] = Finished(@, "published", "ok")]
                ELSE /\ tasks' = [tasks EXCEPT ![t] = Finished(@, "empty", "ok")]
                     /\ UNCHANGED <<buffer_id, current_completion, file_extension, notified>>
    /\ UNCHANGED <<pending_refresh, telemetry, model, buffer_text, telemetry_events, fn_in, fn_out>>

(* model.chat(request) returns: the rest of the future runs to its end *)
ChatReturns(t, response) ==
    /\ t \in TaskIds
    /\ tasks[t].state = "chat"
    /\ op' = "chat"
    /\ IF response.kind = "err"
       THEN /\ tasks' = [tasks EXCEPT ![t] = Finished(@, "failed", "ok")]
            /\ UNCHANGED <<buffer_id, current_completion, file_extension, notified>>
       ELSE IF response.kind # "assistant"
       THEN /\ tasks' = [tasks EXCEPT ![t] = Finished(@, "unexpected", "ok")]
            /\ UNCHANGED <<buffer_id, current_completion, file_extension, notified>>
       ELSE LET completion == Sanitize(response.content)
            IN  IF completion # <<>>
                THEN /\ current_completion' = Some(completion)
                     /\ buffer_id' = Some(tasks[t].buffer)
                     /\ file_extension' =
                            IF IsSome(FileOf(tasks[t].buffer))
                            THEN Extension(FileOf(tasks[t].buffer)[1])
                            ELSE None
                     /\ notified' = notified + 1
                     /\ tasks' = [tasks EXCEPT ![t] = Finished(@, "published", "ok")]
                ELSE /\ tasks' = [tasks EXCEPT ![t] = Finished(@, "empty", "ok")]
                     /\ UNCHANGED <<buffer_id, current_completion, file_extension, notified>>
    /\ UNCHANGED <<pending_refresh, telemetry, model, buffer_text, telemetry_events, fn_in, fn_out>>

\* cycling drops the suggestion
CycleClears(b, cursor_offset, direction) ==
    /\ op' = "cycle"
    /\ current_completion' = None
    /\ UNCHANGED <<buffer_id, file_extension, pending_refresh, telemetry, model, tasks,
                   buffer_text, telemetry_events, notified, fn_in, fn_out>>

(* cycle(buffer, cursor_position, direction, cx) *)
Cycle(b, cursor_offset, direction) ==
    /\ op' = "cycle"
    /\ UNCHANGED <<provider, tasks, buffer_text, telemetry_events, notified, fn_in, fn_out>>

report_inline_completion_event(provider_name, accepted, ext) ==
    [provider |-> provider_name, accepted |-> accepted, file_extension |-> ext]

\* accepting also drops the pending refresh
AcceptCancelsRefresh ==
    /\ telemetry_events' =
          IF IsSome(current_completion) /\ telemetry
          THEN Append(telemetry_events, report_inline_completion_event(name, TRUE, file_extension))
          ELSE telemetry_events
    /\ current_completion' = None
    /\ tasks' = DropTask(tasks, pending_refresh)
    /\ pending_refresh' = 0
    /\ op' = "accept"
    /\ UNCHANGED <<buffer_id, file_extension, telemetry, model,
                   buffer_text, notified, fn_in, fn_out>>

\* reports whether or not a suggestion is stored
AcceptReportsAlways ==
    /\ telemetry_events' =
          IF telemetry
          THEN Append(telemetry_events, report_inline_completion_event(name, TRUE, file_extension))
          ELSE telemetry_events
    /\ current_completion' = None
    /\ op' = "accept"
    /\ UNCHANGED <<buffer_id, file_extension, pending_refresh, telemetry, model, tasks,
                   buffer_text, notified, fn_in, fn_out>>

(* accept(cx) *)
Accept ==
    /\ telemetry_events' =
          IF IsSome(current_completion) /\ telemetry
          THEN Append(telemetry_events, report_inline_completion_event(name, TRUE, file_extension))
          ELSE telemetry_events
    /\ current_completion' = None
    /\ op' = "accept"
    /\ UNCHANGED <<buffer_id, file_extension, pending_refresh, telemetry, model, tasks,
                   buffer_text, notified, fn_in, fn_out>>

\* clears the suggestion only when it reports
DiscardClearsIfReported(should_report_inline_completion_event) ==
    /\ telemetry_events' =
          IF should_report_inline_completion_event /\ IsSome(current_completion) /\ telemetry
          THEN Append(telemetry_events, report_inline_completion_event(name, FALSE, file_extension))
          ELSE telemetry_events
    /\ current_completion' = IF should_report_inline_completion_event THEN None
                             ELSE current_completion
    /\ op' = "discard"
    /\ UNCHANGED <<buffer_id, file_extension, pending_refresh, telemetry, model, tasks,
                   buffer_text, notified, fn_in, fn_out>>

\* reports whatever the flag says
DiscardIgnoresFlag(should_report_inline_completion_event) ==
    /\ telemetry_events' =
          IF IsSome(current_completion) /\ telemetry
          THEN Append(telemetry_events, report_inline_completion_event(name, FALSE, file_extension))
          ELSE telemetry_events
    /\ current_completion' = None
    /\ op' = "discard"
    /\ UNCHANGED <<buffer_id, file_extension, pending_refresh, telemetry, model, tasks,
                   buffer_text, notified, fn_in, fn_out>>

(* discard(should_report_inline_completion_event, cx) *)
Discard(should_report_inline_completion_event) ==
    /\ telemetry_events' =
          IF should_report_inline_completion_event /\ IsSome(current_completion) /\ telemetry
          THEN Append(telemetry_events, report_inline_completion_event(name, FALSE, file_extension))
          ELSE telemetry_events
    /\ current_completion' = None
    /\ op' = "discard"
    /\ UNCHANGED <<buffer_id, file_extension, pending_refresh, telemetry, model, tasks,
                   buffer_text, notified, fn_in, fn_out>>

\* the buffer identity is not compared
active_completion_text_any_buffer(b, cursor_offset) ==
    IF IsSome(current_completion)
    THEN Some([inlays |-> <<[position |-> cursor_offset, bias |-> "right",
                             text |-> current_completion[1]]>>,
               text |-> current_completion[1],
               delete_range |-> None])
    ELSE None

\* a proposal is returned only for a cursor at the start of the buffer
active_completion_text_only_at_start(b, cursor_offset) ==
    IF Some(b) # buffer_id \/ cursor_offset # 0 THEN None
    ELSE IF IsSome(current_completion)
         THEN Some([inlays |-> <<[position |-> cursor_offset, bias |-> "right",
                                  text |-> current_completion[1]]>>,
                    text |-> current_completion[1],
                    delete_range |-> None])
         ELSE None

\* the inlay is placed at the start of the buffer
active_completion_text_at_start(b, cursor_offset) ==
    IF Some(b) # buffer_id THEN None
    ELSE IF IsSome(current_completion)
         THEN Some([inlays |-> <<[position |-> 0, bias |-> "right",
                                  text |-> current_completion[1]]>>,
                    text |-> current_completion[1],
                    delete_range |-> None])
         ELSE None

(* active_completion_text(buffer, cursor_position, cx): a read-only query *)
active_completion_text(b, cursor_offset) ==
    IF Some(b) # buffer_id THEN None
    ELSE IF IsSome(current_completion)
         THEN Some([inlays |-> <<[position |-> cursor_offset, bias |-> "right",
                                  text |-> current_completion[1]]>>,
                    text |-> current_completion[1],
                    delete_range |-> None])
         ELSE None

(* The user edits a buffer *)
EditBuffer(b, text) ==
    /\ buffer_text[b] # text
    /\ buffer_text' = [buffer_text EXCEPT ![b] = text]
    /\ op' = "edit"
    /\ UNCHANGED <<provider, tasks, telemetry_events, notified, fn_in, fn_out>>

Directions == {"Prev", "Next"}

Next ==
    \/ \E b \in Buffers, debounce \in BOOLEAN :
          \E o \in 0..Len(buffer_text[b]) : Refresh(b, o, debounce)
    \/ \E t \in TaskIds : TaskStart(t)
    \/ \E t \in TaskIds : TimerFired(t)
    \/ \E t \in TaskIds, r \in Responses : ChatReturns(t, r)
    \/ \E b \in Buffers, d \in Directions : \E o \in 0..Len(buffer_text[b]) : Cycle(b, o, d)
    \/ Accept
    \/ \E r \in BOOLEAN : Discard(r)
    \/ \E b \in Buffers, text \in Texts : EditBuffer(b, text)

Spec == Init /\ [][Next]_vars

(* The executor polls every spawned future that can make progress, the      *)
(* debounce timer fires, and the chat client returns some result.           *)
Fairness ==
    /\ WF_vars(\E t \in TaskIds : TaskStart(t))
    /\ WF_vars(\E t \in TaskIds : TimerFired(t))
    /\ WF_vars(\E t \in TaskIds, r \in Responses : ChatReturns(t, r))

SpecFair == Init /\ [][Next]_vars /\ Fairness

----------------------------------------------------------------------------
(* The prompt builder on its own: every text over a small alphabet and     *)
(* every cursor offset in it.                                              *)

Alphabet == {"a", " ", "\n"}

RECURSIVE StringsUpTo(_)
StringsUpTo(n) ==
    IF n = 0 THEN { <<>> }
    ELSE StringsUpTo(n - 1) \cup
         { Append(s, c) : s \in { x \in StringsUpTo(n - 1) : Len(x) = n - 1 }, c \in Alphabet }

InitPrompt ==
    /\ InitProvider
    /\ ~telemetry
    /\ fn_in \in { [text |-> T, offset |-> O] : T \in StringsUpTo(MaxTextLen), O \in 0..MaxTextLen }
    /\ fn_in.offset <= Len(fn_in.text)
    /\ fn_out = None

ApplyBuildPrompt ==
    /\ fn_out = None
    /\ fn_out' = Some(BuildPrompt(fn_in.text, fn_in.offset))
    /\ op' = "build_prompt"
    /\ UNCHANGED <<provider, tasks, buffer_text, telemetry_events, notified, fn_in>>

NextPrompt == ApplyBuildPrompt

SpecPrompt == InitPrompt /\ [][NextPrompt]_vars

----------------------------------------------------------------------------
(* The sanitizer on its own: raw contents assembled from text pieces, the  *)
(* three tags and fragments of tags.                                       *)

TextPieces == { <<"x">>, <<"y">>, <<" ">> }
Tags == { FIM_PREFIX, FIM_SUFFIX, FIM_MIDDLE }
Fragments == { <<"<", "f", "i", "m", "_">>, <<"m", "i", "d", "d", "l", "e", ">">> }
Items == TextPieces \cup Tags \cup Fragments

RECURSIVE ItemSeqs(_)
ItemSeqs(n) ==
    IF n = 0 THEN { <<>> }
    ELSE ItemSeqs(n - 1) \cup
         { Append(s, i) : s \in { x \in ItemSeqs(n - 1) : Len(x) = n - 1 }, i \in Items }

InitSanitize ==
    /\ InitProvider
    /\ ~telemetry
    /\ fn_in \in ItemSeqs(MaxItems)
    /\ fn_out = None

ApplySanitize ==
    /\ fn_out = None
    /\ fn_out' = Some(Sanitize(Concat(fn_in)))
    /\ op' = "sanitize"
    /\ UNCHANGED <<provider, tasks, buffer_text, telemetry_events, notified, fn_in>>

NextSanitize == ApplySanitize

SpecSanitize == InitSanitize /\ [][NextSanitize]_vars

----------------------------------------------------------------------------
(* Vocabulary of the properties *)

Offsets == 0..1

\* task t takes the publish branch in this step
Publishes(t) == tasks[t].outcome # "published" /\ tasks'[t].outcome = "published"

Shown(b) == IsSome(active_completion_text(b, 0))

SuggestionState == <<current_completion, buffer_id, file_extension>>

\* whitespace trimming stated by positions instead of by recursion
NonWs(s) == {i \in 1..Len(s) : ~IsWhitespace(s[i])}
FirstNonWs(s) == CHOOSE i \in NonWs(s) : \A j \in NonWs(s) : i <= j
LastNonWs(s) == CHOOSE i \in NonWs(s) : \A j \in NonWs(s) : j <= i
rtrim(s) == IF NonWs(s) = {} THEN <<>> ELSE SubSeq(s, 1, LastNonWs(s))
ltrim(s) == IF NonWs(s) = {} THEN <<>> ELSE SubSeq(s, FirstNonWs(s), Len(s))
Stripped(s) == IF NonWs(s) = {} THEN <<>> ELSE SubSeq(s, FirstNonWs(s), LastNonWs(s))

----------------------------------------------------------------------------
(* C1: a refresh that has been superseded by a later refresh call never     *)
(* publishes: every publish, and every write of a suggestion, is made by    *)
(* the task of the latest refresh call, so the suggestion of the later call *)
(* is never overwritten by the earlier one's late completion.               *)
C1_SupersededNeverWrites ==
    [][ /\ \A t \in TaskIds : Publishes(t) => t = Len(tasks)
        /\ (current_completion' # current_completion /\ IsSome(current_completion'))
              => (Len(tasks) > 0 /\ Publishes(Len(tasks))) ]_vars

\* the first refresh was superseded while suspended in its model call, the second published
C1_Witness ==
    /\ Len(tasks) >= 2
    /\ tasks[1].state = "cancelled" /\ tasks[1].called
    /\ tasks[2].outcome = "published"

(* C2: after any step, a query for buffer b returns a proposal only if a    *)
(* suggestion is stored and the recorded buffer identity is b, and it does  *)
(* so only if it did before the step or the step published for b; so after  *)
(* a publish for another buffer the query for b returns nothing.            *)
C2_OnlyForRecordedBuffer ==
    [][ \A b \in Buffers, o \in Offsets :
          IsSome(active_completion_text(b, o))' =>
             /\ IsSome(current_completion')
             /\ buffer_id' = Some(b)
             /\ \/ IsSome(active_completion_text(b, o))
                \/ \E t \in TaskIds : Publishes(t) /\ tasks[t].buffer = b ]_vars

\* a suggestion published for buffer 1 is returned for buffer 1 and not for buffer 2
C2_Witness ==
    /\ IsSome(active_completion_text(1, 0))
    /\ active_completion_text(2, 0) = None
    /\ op = "chat"

(* C3 as stated: once accept(), discard() or refresh() has been called, no   *)
(* suggestion is active.                                                    *)
C3_Original ==
    [][ op' \in {"accept", "discard", "refresh"} => \A b \in Buffers : ~Shown(b)' ]_vars

(* C3 amended: once accept() or discard() has been called no suggestion is   *)
(* active, and a suggestion becomes active only by a refresh's publish; a   *)
(* refresh() call itself leaves the suggestion state as it was.             *)
C3_ActiveUntilAcceptOrDiscard ==
    [][ /\ op' \in {"accept", "discard"} =>
              current_completion' = None /\ \A b \in Buffers : ~Shown(b)'
        /\ (current_completion = None /\ IsSome(current_completion')) =>
              \E t \in TaskIds : Publishes(t)
        /\ op' = "refresh" =>
              SuggestionState' = SuggestionState /\ \A b \in Buffers : Shown(b)' = Shown(b) ]_vars

\* a refresh has just been called and the earlier suggestion is still returned
C3_Witness ==
    /\ op = "refresh"
    /\ \E b \in Buffers : Shown(b)
    /\ \E t \in TaskIds : tasks[t].outcome = "published"

(* C4: when the response of a refresh cleans to the empty string, the step  *)
(* leaves suggestion text, buffer identity and file extension as they were, *)
(* notifies nobody, and every query returns what it returned before.        *)
C4_EmptyCompletionKeepsState ==
    [][ \A t \in TaskIds, r \in Responses :
          (op' = "chat" /\ tasks[t].state = "chat" /\ tasks'[t].state = "done"
             /\ r.kind = "assistant" /\ Sanitize(r.content) = <<>> /\ ChatReturns(t, r)) =>
             /\ SuggestionState' = SuggestionState
             /\ notified' = notified
             /\ \A b \in Buffers, o \in Offsets :
                   active_completion_text(b, o)' = active_completion_text(b, o) ]_vars

\* an empty completion arrived while a suggestion was active, and it is still active
C4_Witness ==
    /\ op = "chat"
    /\ tasks[Len(tasks)].outcome = "empty"
    /\ \E b \in Buffers : Shown(b)

(* C5: when the model call fails or the response message is not an         *)
(* assistant message, the step changes no suggestion state, shows nothing   *)
(* new, emits no telemetry event, notifies nobody, and the task ends Ok.    *)
C5_FailureChangesNothing ==
    [][ \A t \in TaskIds, r \in Responses :
          (op' = "chat" /\ tasks[t].state = "chat" /\ tasks'[t].state = "done"
             /\ r.kind # "assistant" /\ ChatReturns(t, r)) =>
             /\ SuggestionState' = SuggestionState
             /\ telemetry_events' = telemetry_events
             /\ notified' = notified
             /\ \A b \in Buffers, o \in Offsets :
                   active_completion_text(b, o)' = active_completion_text(b, o)
             /\ tasks'[t].state = "done" /\ tasks'[t].result = "ok" ]_vars

\* one refresh ended in a call failure and a later one in an unexpected message
C5_Witness ==
    /\ op = "chat"
    /\ \E t \in TaskIds : tasks[t].outcome = "failed"
    /\ tasks[Len(tasks)].outcome = "unexpected"
    /\ tasks[Len(tasks)].result = "ok"

(* C6: accept() with a telemetry sink: one event (name "ollama", accepted, *)
(* the stored file extension) if a suggestion was stored and none           *)
(* otherwise; afterwards no suggestion is active.                           *)
C6_AcceptReportsOnce ==
    [][ (op' = "accept" /\ Accept /\ telemetry) =>
          /\ telemetry_events' =
                IF IsSome(current_completion)
                THEN telemetry_events \o
                       <<[provider |-> "ollama", accepted |-> TRUE,
                          file_extension |-> file_extension]>>
                ELSE telemetry_events
          /\ current_completion' = None
          /\ \A b \in Buffers : ~Shown(b)' ]_vars

\* a suggestion for main.rs has been accepted and reported
C6_Witness ==
    /\ op = "accept"
    /\ telemetry
    /\ telemetry_events # <<>>
    /\ telemetry_events[Len(telemetry_events)] =
          [provider |-> "ollama", accepted |-> TRUE, file_extension |-> Some(<<"r", "s">>)]
    /\ current_completion = None

(* C7: discard(shouldReport) with a telemetry sink: one event (name        *)
(* "ollama", not accepted, the stored file extension) exactly when a        *)
(* suggestion was stored and shouldReport is true; afterwards no suggestion *)
(* is active whatever shouldReport was.                                     *)
C7_DiscardReportsIfAsked ==
    [][ \A r \in BOOLEAN :
          (op' = "discard" /\ Discard(r) /\ telemetry) =>
             /\ telemetry_events' =
                   IF IsSome(current_completion) /\ r
                   THEN telemetry_events \o
                          <<[provider |-> "ollama", accepted |-> FALSE,
                             file_extension |-> file_extension]>>
                   ELSE telemetry_events
             /\ current_completion' = None
             /\ \A b \in Buffers : ~Shown(b)' ]_vars

\* a suggestion has been discarded and reported as rejected
C7_Witness ==
    /\ op = "discard"
    /\ telemetry
    /\ telemetry_events # <<>>
    /\ telemetry_events[Len(telemetry_events)].accepted = FALSE
    /\ current_completion = None

(* C8 as stated: the prompt is rtrim(T[0:O]) + PREFIX_TAG + ltrim(T[O:]) +  *)
(* SUFFIX_TAG + MIDDLE_TAG with nothing else between the segments.          *)
C8_Original ==
    IsSome(fn_out) =>
       fn_out[1] = rtrim(SubSeq(fn_in.text, 1, fn_in.offset)) \o FIM_PREFIX \o
                   ltrim(SubSeq(fn_in.text, fn_in.offset + 1, Len(fn_in.text))) \o
                   FIM_SUFFIX \o FIM_MIDDLE

(* C8 amended: the prompt is rtrim(T[0:O]) + PREFIX_TAG + "\n" +            *)
(* ltrim(T[O:]) + SUFFIX_TAG + "\n" + MIDDLE_TAG.                           *)
C8_PromptLayout ==
    IsSome(fn_out) =>
       fn_out[1] = rtrim(SubSeq(fn_in.text, 1, fn_in.offset)) \o FIM_PREFIX \o <<"\n">> \o
                   ltrim(SubSeq(fn_in.text, fn_in.offset + 1, Len(fn_in.text))) \o
                   FIM_SUFFIX \o <<"\n">> \o FIM_MIDDLE

\* a prompt built with whitespace on both sides of the cursor
C8_Witness ==
    /\ IsSome(fn_out)
    /\ fn_in = [text |-> <<"a", " ", "\n", "a">>, offset |-> 2]
    /\ Len(fn_out[1]) = 40

(* C9: for raw content made of text pieces without '<' or '>' and intact    *)
(* tags in any arrangement, the cleaned result is the concatenation of the  *)
(* text pieces with surrounding whitespace removed.                         *)
TextOnly(items) == SelectSeq(items, LAMBDA i : i \in TextPieces)
C9_TagsRemovedThenTrimmed ==
    (IsSome(fn_out) /\ \A k \in 1..Len(fn_in) : fn_in[k] \in TextPieces \cup Tags) =>
       fn_out[1] = Stripped(Concat(TextOnly(fn_in)))

\* PREFIX_TAG + "x" + MIDDLE_TAG + "y" + SUFFIX_TAG has been cleaned to "xy"
C9_Witness ==
    /\ fn_in = <<FIM_PREFIX, <<"x">>, FIM_MIDDLE, <<"y">>, FIM_SUFFIX>>
    /\ fn_out = Some(<<"x", "y">>)

(* C10: cycle changes neither the suggestion text, the recorded buffer     *)
(* identity, the file extension, the pending refresh and its task, nor the  *)
(* telemetry log, whatever its arguments and the state.                     *)
C10_CycleChangesNothing ==
    [][ \A b \in Buffers, o \in Offsets, d \in Directions :
          (op' = "cycle" /\ Cycle(b, o, d)) =>
             /\ SuggestionState' = SuggestionState
             /\ pending_refresh' = pending_refresh
             /\ tasks' = tasks
             /\ telemetry_events' = telemetry_events
             /\ notified' = notified ]_vars

\* cycle was called with a suggestion active and a refresh in flight
C10_Witness ==
    /\ op = "cycle"
    /\ IsSome(current_completion)
    /\ pending_refresh > 0 /\ Live(pending_refresh)

(* C11: a refresh whose model call returns an assistant message that cleans *)
(* to a non-empty string publishes {text = the cleaned string, buffer       *)
(* identity = its buffer, file extension = that of the buffer's file or     *)
(* none} and notifies once; every refresh task eventually ends or is        *)
(* superseded, and an ended task took exactly one of the four exits.        *)
ExpectedExtension(b) == IF b = 1 THEN Some(<<"r", "s">>) ELSE None
Outcomes == {"failed", "unexpected", "empty", "published"}
C11_RefreshEndsAndPublishes ==
    /\ [][ \A t \in TaskIds, r \in Responses :
             (tasks[t].state = "chat" /\ r.kind = "assistant" /\ Sanitize(r.content) # <<>>
                /\ ChatReturns(t, r)) =>
                /\ current_completion' = Some(Sanitize(r.content))
                /\ buffer_id' = Some(tasks[t].buffer)
                /\ file_extension' = ExpectedExtension(tasks[t].buffer)
                /\ notified' = notified + 1
                /\ tasks'[t].outcome = "published" ]_vars
    /\ [](\A t \in TaskIds :
             /\ tasks[t].state = "done" => tasks[t].outcome \in Outcomes
             /\ tasks[t].state # "done" => tasks[t].outcome = "none")
    /\ \A t \in 1..MaxRefresh :
          (t \in TaskIds /\ Live(t)) ~> (t \in TaskIds /\ tasks[t].state \in {"done", "cancelled"})

\* a refresh for main.rs has just published and notified
C11_Witness ==
    /\ op = "chat"
    /\ Len(tasks) > 0 /\ tasks[Len(tasks)].outcome = "published"
    /\ buffer_id = Some(1)
    /\ file_extension = Some(<<"r", "s">>)
    /\ notified >= 1

(* C12: a debounced refresh sends its request only when its timer has       *)
(* fired; a refresh call made while an earlier debounced refresh is still   *)
(* waiting cancels it before it has sent a request, and a cancelled refresh *)
(* never sends one.  So of a burst of debounced calls, each made within the *)
(* previous one's wait, only the last can reach the model.                  *)
C12_DebounceCollapsesBursts ==
    [][ /\ \A t \in TaskIds :
             (tasks[t].debounce /\ tasks[t].state \in {"start", "timer"}
                /\ Len(tasks') > Len(tasks)) =>
                tasks'[t].state = "cancelled" /\ ~tasks'[t].called
        /\ \A t \in TaskIds : tasks[t].state = "cancelled" => tasks'[t] = tasks[t]
        /\ \A t \in TaskIds :
             (~tasks[t].called /\ tasks'[t].called) =>
                (tasks[t].debounce => tasks[t].state = "timer") ]_vars

\* two debounced calls in a burst: the first never called the model, the second did
C12_Witness ==
    /\ Len(tasks) = 2
    /\ tasks[1].state = "cancelled" /\ ~tasks[1].called
    /\ tasks[2].debounce /\ tasks[2].state = "chat" /\ tasks[2].called

(* C13: a returned proposal has exactly one inlay, at the queried cursor    *)
(* biased right, carrying the stored text; its plain text is the stored     *)
(* text; it has no deletion range.                                          *)
C13_ProposalShape ==
    \A b \in Buffers, o \in Offsets :
       LET p == active_completion_text(b, o)
       IN  IsSome(p) =>
              /\ Len(p[1].inlays) = 1
              /\ p[1].inlays[1].position = o
              /\ p[1].inlays[1].bias = "right"
              /\ p[1].inlays[1].text = current_completion[1]
              /\ p[1].text = current_completion[1]
              /\ p[1].delete_range = None

\* a proposal is returned at cursor offset 1
C13_Witness ==
    /\ IsSome(active_completion_text(1, 1))
    /\ active_completion_text(1, 1)[1].inlays[1].position = 1

(* C14 as stated: the request of a debounced refresh carries a prompt built *)
(* from the buffer text as it is when the wait has elapsed.                 *)
C14_Original ==
    [][ \A t \in TaskIds :
          (tasks[t].debounce /\ ~tasks[t].called /\ tasks'[t].called) =>
             \E o \in 0..Len(buffer_text[tasks[t].buffer]) :
                tasks'[t].prompt = BuildPrompt(buffer_text[tasks[t].buffer], o) ]_vars

(* C14 amended: the prompt is built from the buffer text and cursor offset  *)
(* as they are when refresh is called, whatever the debounce flag, and the  *)
(* task carries it unchanged through the wait into the request.             *)
C14_PromptCapturedAtCall ==
    [][ /\ \A b \in Buffers, o \in Offsets, d \in BOOLEAN :
             (Len(tasks') > Len(tasks) /\ Refresh(b, o, d)) =>
                tasks'[Len(tasks')].prompt =
                   rtrim(SubSeq(buffer_text[b], 1, o)) \o FIM_PREFIX \o <<"\n">> \o
                   ltrim(SubSeq(buffer_text[b], o + 1, Len(buffer_text[b]))) \o
                   FIM_SUFFIX \o <<"\n">> \o FIM_MIDDLE
        /\ \A t \in TaskIds :
             (Live(t) /\ tasks'[t].state \in {"start", "timer", "chat"}) =>
                tasks'[t].prompt = tasks[t].prompt ]_vars

\* the buffer was edited during the wait: the request carries the text of the call
C14_Witness ==
    \E t \in TaskIds :
       /\ tasks[t].debounce /\ tasks[t].state = "chat"
       /\ \A o \in 0..Len(buffer_text[tasks[t].buffer]) :
             tasks[t].prompt # BuildPrompt(buffer_text[tasks[t].buffer], o)

(* C15: every refresh call stores the handle of the task it spawns, and in  *)
(* every state at most one task can still publish: the one whose handle is  *)
(* held.                                                                    *)
C15_OneOutstandingRefresh ==
    /\ [](\A t \in TaskIds : Live(t) => t = pending_refresh)
    /\ [](Cardinality({t \in TaskIds : Live(t)}) <= 1)
    /\ [][ Len(tasks') > Len(tasks) =>
              /\ pending_refresh' = Len(tasks')
              /\ pending_refresh' # pending_refresh
              /\ tasks'[Len(tasks')].state = "start" ]_vars

\* a refresh has just replaced the handle of a refresh that was still running
C15_Witness ==
    /\ Len(tasks) = 2
    /\ tasks[1].state = "cancelled"
    /\ pending_refresh = 2 /\ Live(2)
    /\ op = "refresh"

(* C16: the suggestion state changes only in a publish, which writes text,  *)
(* buffer identity and file extension of one refresh in one step, or in an  *)
(* accept or discard, which only clears the text; so the recorded file      *)
(* extension is always that of the recorded buffer.                         *)
C16_PublishIsAtomic ==
    /\ [](IsSome(buffer_id) => file_extension = ExpectedExtension(buffer_id[1]))
    /\ [](IsSome(current_completion) => IsSome(buffer_id))
    /\ [][ SuggestionState' # SuggestionState =>
             \/ \E t \in TaskIds, r \in Responses :
                   /\ tasks[t].state = "chat" /\ r.kind = "assistant"
                   /\ Publishes(t)
                   /\ tasks' = [tasks EXCEPT ![t] = tasks'[t]]
                   /\ SuggestionState' = <<Some(Sanitize(r.content)), Some(tasks[t].buffer),
                                           ExpectedExtension(tasks[t].buffer)>>
             \/ /\ op' \in {"accept", "discard"}
                /\ SuggestionState' = <<None, buffer_id, file_extension>>
                /\ tasks' = tasks ]_vars

\* a suggestion for the buffer without a file replaced one for main.rs
C16_Witness ==
    /\ Len(tasks) = 2
    /\ tasks[1].outcome = "published" /\ tasks[2].outcome = "published"
    /\ IsSome(current_completion)
    /\ buffer_id = Some(2) /\ file_extension = None

(* C17: the stored suggestion text contains none of the three tags.         *)
Contains(s, pat) ==
    \E i \in 1..(Len(s) - Len(pat) + 1) : SubSeq(s, i, i + Len(pat) - 1) = pat
C17_NoTagInSuggestion ==
    IsSome(current_completion) =>
       \A tag \in Tags : ~Contains(current_completion[1], tag)

(* C18: accept and discard change the suggested text and nothing else of    *)
(* the provider: the pending refresh and its task, the recorded buffer      *)
(* identity, the file extension and the model stay as they were, so a       *)
(* refresh in flight can still publish.                                     *)
C18_AcceptDiscardFrame ==
    [][ (op' \in {"accept", "discard"} /\ (Accept \/ \E r \in BOOLEAN : Discard(r))) =>
          /\ pending_refresh' = pending_refresh
          /\ tasks' = tasks
          /\ buffer_id' = buffer_id
          /\ file_extension' = file_extension
          /\ model' = model
          /\ \A t \in TaskIds : Live(t) => Live(t)' ]_vars

\* a suggestion was accepted or discarded while a refresh was in flight
C18_Witness ==
    /\ op \in {"accept", "discard"}
    /\ current_completion = None /\ IsSome(buffer_id)
    /\ pending_refresh > 0 /\ tasks[pending_refresh].state = "chat"

(* C19: a stored suggestion text is non-empty, has no whitespace at either  *)
(* end and comes with a recorded buffer identity; a new provider stores no  *)
(* suggestion, no buffer identity and no file extension.                    *)
C19_StoredTextIsTrimmed ==
    /\ op = "new" => SuggestionState = <<None, None, None>>
    /\ IsSome(current_completion) =>
          /\ current_completion[1] # <<>>
          /\ ~IsWhitespace(current_completion[1][1])
          /\ ~IsWhitespace(current_completion[1][Len(current_completion[1])])
          /\ IsSome(buffer_id)

\* the response " x<fim_prefix>y\n" is stored as "xy"
C19_Witness ==
    /\ current_completion = Some(<<"x", "y">>)
    /\ IsSome(buffer_id)

(* C20: whether a proposal is returned for a buffer does not depend on the  *)
(* queried cursor position, and a returned proposal sits at the queried     *)
(* position with the stored text.                                           *)
C20_CursorIndependent ==
    \A b \in Buffers, o1 \in Offsets, o2 \in Offsets :
       /\ IsSome(active_completion_text(b, o1)) <=> IsSome(active_completion_text(b, o2))
       /\ IsSome(active_completion_text(b, o1)) <=> (IsSome(current_completion) /\ buffer_id = Some(b))
       /\ IsSome(active_completion_text(b, o1)) =>
             /\ active_completion_text(b, o1)[1].inlays[1].position = o1
             /\ active_completion_text(b, o1)[1].text = active_completion_text(b, o2)[1].text

\* a suggestion published by a refresh is returned at both cursor positions
C20_Witness ==
    /\ op = "chat"
    /\ IsSome(active_completion_text(2, 0))
    /\ IsSome(active_completion_text(2, 1))

====
